---- MODULE Spec2Model ----
(***************************************************************************)
(* Client-side behaviour of the Daily Bible App pages:                     *)
(*   - swipe navigation, src/static/app.js            (names without tag)  *)
(*   - swipe navigation, src/unnamed/part_000:1-38    (names tagged _p)    *)
(*   - theme toggle,     src/unnamed/part_000:40-71                        *)
(* Both swipe scripts are dispatched the same touch events in lockstep.    *)
(***************************************************************************)
EXTENDS Integers, Sequences, FiniteSets, TLC

\* ---- bounds of the model ------------------------------------------------
MaxX == 9
MaxY == 6

\* sample client coordinates around the thresholds of the classifier
XCoords == {0} \cup {10 * i : i \in 6..MaxX}
YCoords == {0} \cup {10 * i : i \in 6..MaxY}
Points == [clientX : XCoords, clientY : YCoords]

\* ---- JavaScript values ----------------------------------------------------
Null == <<>>
Some(v) == <<v>>
Val(s) == s[1]

Undefined == "<undefined>"
NullStr == "<null>"
AttrAbsent == "<absent>"

Falsy(v) == v \in {Undefined, NullStr, ""}

Abs(n) == IF n < 0 THEN -n ELSE n

\* ---- the page -------------------------------------------------------------
PageUrl == "/day/2"
PrevTarget == "/day/1"
NextTarget == "/day/3"
PrevAttrs == {AttrAbsent, "", PrevTarget}
NextAttrs == {AttrAbsent, "", NextTarget}

STORAGE_KEY == "theme"
Moon == "moon"
Sun == "sun"
NoIcon == "<no icon>"
SavedValues == {NullStr, "", "light", "dark", "Light"}
HtmlThemes == {AttrAbsent, "light", "dark"}
HtmlIcons == {"", Moon, Sun}

\* touch events: the list property may be missing, empty, or hold one point
NoList == [hasList |-> FALSE, list |-> <<>>]
Events == {NoList, [hasList |-> TRUE, list |-> <<>>]}
            \cup {[hasList |-> TRUE, list |-> <<p>>] : p \in Points}
HasPoint(e) == e.hasList /\ Len(e.list) > 0

VARIABLES
  body, prevAttr, nextAttr, btn, icon,      \* the page's markup
  listening, startX, startY,                \* static/app.js
  listening_p, startX_p, startY_p,          \* part_000, swipe block
  href,                                     \* window.location.href
  storage, dataTheme, iconText,             \* localStorage / documentElement / #themeIcon
  op, ev, pre, pre_p, nav, nav_p,           \* last dispatched event and its outcome
  threw, threw_p,
  lastStart, pairStart,                     \* touchstart still open / paired with this touchend
  initial, applied, appliedPrev, preTheme   \* theme resolved at load, last apply() argument

vars == <<body, prevAttr, nextAttr, btn, icon, listening, startX, startY,
          listening_p, startX_p, startY_p, href, storage, dataTheme, iconText,
          op, ev, pre, pre_p, nav, nav_p, threw, threw_p,
          lastStart, pairStart, initial, applied, appliedPrev, preTheme>>

\* ---- swipe navigation: static/app.js --------------------------------------
SwipeMin == 60
RatioNum == 3
RatioDen == 2

dataset(attr) == IF attr = AttrAbsent THEN Undefined ELSE attr

\* registers the listeners as soon as one of the two URLs is present
enabled_either(b, pa, na) == b /\ (~Falsy(dataset(pa)) \/ ~Falsy(dataset(na)))

enabled(b, pa, na) == b /\ ~Falsy(dataset(pa)) /\ ~Falsy(dataset(na))

\* both comparisons inclusive
isSwipe_ge(dx, dy) == Abs(dx) >= SwipeMin /\ RatioDen * Abs(dx) >= RatioNum * Abs(dy)

\* Math.abs(dx) > 60 && Math.abs(dx) > Math.abs(dy) * 1.5
isSwipe(dx, dy) == Abs(dx) > SwipeMin /\ RatioDen * Abs(dx) > RatioNum * Abs(dy)

\* clears the gesture when the event has no touch point
onTouchStart_clears(sx, sy, e) ==
  IF ~(e.hasList /\ Len(e.list) > 0)
    THEN [startX |-> Null, startY |-> Null, threw |-> FALSE]
    ELSE [startX |-> Some(e.list[1].clientX), startY |-> Some(e.list[1].clientY),
          threw |-> FALSE]

\* keeps the coordinates of the first touchstart of a gesture
onTouchStart_keepsFirst(sx, sy, e) ==
  IF ~(e.hasList /\ Len(e.list) > 0)
    THEN [startX |-> sx, startY |-> sy, threw |-> FALSE]
  ELSE IF sx # Null
    THEN [startX |-> sx, startY |-> sy, threw |-> FALSE]
    ELSE [startX |-> Some(e.list[1].clientX), startY |-> Some(e.list[1].clientY),
          threw |-> FALSE]

onTouchStart(sx, sy, e) ==
  IF ~(e.hasList /\ Len(e.list) > 0)
    THEN [startX |-> sx, startY |-> sy, threw |-> FALSE]
    ELSE [startX |-> Some(e.list[1].clientX), startY |-> Some(e.list[1].clientY),
          threw |-> FALSE]

\* direction of the swipe inverted
onTouchEnd_swapped(sx, sy, e, prevUrl, nextUrl) ==
  IF sx = Null \/ sy = Null
    THEN [startX |-> sx, startY |-> sy, nav |-> "none", threw |-> FALSE]
  ELSE IF ~(e.hasList /\ Len(e.list) > 0)
    THEN [startX |-> sx, startY |-> sy, nav |-> "none", threw |-> FALSE]
  ELSE LET dx == e.list[1].clientX - Val(sx)
           dy == e.list[1].clientY - Val(sy)
       IN [startX |-> Null, startY |-> Null,
           nav |-> IF isSwipe(dx, dy)
                     THEN (IF dx < 0 THEN prevUrl ELSE nextUrl)
                     ELSE "none",
           threw |-> FALSE]

\* without the "no gesture in progress" guard: null start coordinates count as 0
onTouchEnd_noGuard(sx, sy, e, prevUrl, nextUrl) ==
  IF ~(e.hasList /\ Len(e.list) > 0)
    THEN [startX |-> sx, startY |-> sy, nav |-> "none", threw |-> FALSE]
  ELSE LET dx == e.list[1].clientX - (IF sx = Null THEN 0 ELSE Val(sx))
           dy == e.list[1].clientY - (IF sy = Null THEN 0 ELSE Val(sy))
       IN [startX |-> Null, startY |-> Null,
           nav |-> IF isSwipe(dx, dy)
                     THEN (IF dx < 0 THEN nextUrl ELSE prevUrl)
                     ELSE "none",
           threw |-> FALSE]

onTouchEnd(sx, sy, e, prevUrl, nextUrl) ==
  IF sx = Null \/ sy = Null
    THEN [startX |-> sx, startY |-> sy, nav |-> "none", threw |-> FALSE]
  ELSE IF ~(e.hasList /\ Len(e.list) > 0)
    THEN [startX |-> sx, startY |-> sy, nav |-> "none", threw |-> FALSE]
  ELSE LET dx == e.list[1].clientX - Val(sx)
           dy == e.list[1].clientY - Val(sy)
       IN [startX |-> Null, startY |-> Null,
           nav |-> IF isSwipe(dx, dy)
                     THEN (IF dx < 0 THEN nextUrl ELSE prevUrl)
                     ELSE "none",
           threw |-> FALSE]

\* ---- swipe navigation: part_000 -------------------------------------------
getAttribute(attr) == IF attr = AttrAbsent THEN NullStr ELSE attr

enabled_p(b, pa, na) == b /\ ~Falsy(getAttribute(pa)) /\ ~Falsy(getAttribute(na))

\* distance test only, without the horizontal-ratio test
isSwipe_p_noRatio(dx, dy) == Abs(dx) > SwipeMin

isSwipe_p(dx, dy) == Abs(dx) > SwipeMin /\ RatioDen * Abs(dx) > RatioNum * Abs(dy)

\* e.touches[0] is undefined for an empty list: reading .clientX throws
\* before either assignment
onTouchStart_p(sx, sy, e) ==
  IF ~e.hasList \/ Len(e.list) = 0
    THEN [startX |-> sx, startY |-> sy, threw |-> TRUE]
    ELSE [startX |-> Some(e.list[1].clientX), startY |-> Some(e.list[1].clientY),
          threw |-> FALSE]

\* resets the gesture only after a swipe
onTouchEnd_p_keeps(sx, sy, e, prevUrl, nextUrl) ==
  IF sx = Null \/ sy = Null
    THEN [startX |-> sx, startY |-> sy, nav |-> "none", threw |-> FALSE]
  ELSE IF ~e.hasList \/ Len(e.list) = 0
    THEN [startX |-> sx, startY |-> sy, nav |-> "none", threw |-> TRUE]
  ELSE LET dx == e.list[1].clientX - Val(sx)
           dy == e.list[1].clientY - Val(sy)
       IN IF isSwipe_p(dx, dy)
            THEN [startX |-> Null, startY |-> Null,
                  nav |-> (IF dx < 0 THEN nextUrl ELSE prevUrl), threw |-> FALSE]
            ELSE [startX |-> sx, startY |-> sy, nav |-> "none", threw |-> FALSE]

onTouchEnd_p(sx, sy, e, prevUrl, nextUrl) ==
  IF sx = Null \/ sy = Null
    THEN [startX |-> sx, startY |-> sy, nav |-> "none", threw |-> FALSE]
  ELSE IF ~e.hasList \/ Len(e.list) = 0
    THEN [startX |-> sx, startY |-> sy, nav |-> "none", threw |-> TRUE]
  ELSE LET dx == e.list[1].clientX - Val(sx)
           dy == e.list[1].clientY - Val(sy)
       IN [startX |-> Null, startY |-> Null,
           nav |-> IF isSwipe_p(dx, dy)
                     THEN (IF dx < 0 THEN nextUrl ELSE prevUrl)
                     ELSE "none",
           threw |-> FALSE]

\* ---- theme toggle: part_000 -----------------------------------------------
\* glyphs of the two branches exchanged
apply_swappedIcons(theme, dt, it, hasIcon) ==
  IF theme = "light"
    THEN [dataTheme |-> "light", iconText |-> IF hasIcon THEN Sun ELSE it]
    ELSE [dataTheme |-> AttrAbsent, iconText |-> IF hasIcon THEN Moon ELSE it]

\* flips the indicator instead of setting it
apply_flips(theme, dt, it, hasIcon) ==
  IF theme = "light"
    THEN [dataTheme |-> IF dt = "light" THEN AttrAbsent ELSE "light",
          iconText |-> IF hasIcon THEN Moon ELSE it]
    ELSE [dataTheme |-> AttrAbsent, iconText |-> IF hasIcon THEN Sun ELSE it]

apply(theme, dt, it, hasIcon) ==
  IF theme = "light"
    THEN [dataTheme |-> "light", iconText |-> IF hasIcon THEN Moon ELSE it]
    ELSE [dataTheme |-> AttrAbsent, iconText |-> IF hasIcon THEN Sun ELSE it]

\* accepts any stored value other than "dark" as light
initialTheme_lax(saved) == IF saved = "dark" \/ saved = NullStr THEN "dark" ELSE "light"

\* ignores the stored value
initialTheme_forgets(saved) == "dark"

initialTheme(saved) == IF saved = "light" \/ saved = "dark" THEN saved ELSE "dark"

\* applies the opposite theme without storing it
onClick_noPersist(st, dt, it, hasIcon) ==
  LET isLight == dt = "light"
      next == IF isLight THEN "dark" ELSE "light"
      dom == apply(next, dt, it, hasIcon)
  IN [storage |-> st, applied |-> next,
      dataTheme |-> dom.dataTheme, iconText |-> dom.iconText]

\* stores the theme it read instead of the one it applies
onClick_storesCurrent(st, dt, it, hasIcon) ==
  LET isLight == dt = "light"
      next == IF isLight THEN "dark" ELSE "light"
      dom == apply(next, dt, it, hasIcon)
  IN [storage |-> IF isLight THEN "light" ELSE "dark", applied |-> next,
      dataTheme |-> dom.dataTheme, iconText |-> dom.iconText]

\* the click listener: reads the root's data-theme, stores and applies the opposite
onClick(st, dt, it, hasIcon) ==
  LET isLight == dt = "light"
      next == IF isLight THEN "dark" ELSE "light"
      dom == apply(next, dt, it, hasIcon)
  IN [storage |-> next, applied |-> next,
      dataTheme |-> dom.dataTheme, iconText |-> dom.iconText]

\* ---- page load: both scripts run top to bottom ----------------------------
\* state left by the three IIFEs on a page with the given markup and storage
\* stores the default theme while loading
load_resets(b, pa, na, ic, st, htmlTheme, htmlIcon) ==
  LET first == initialTheme(st)
      dom == apply(first, htmlTheme, IF ic THEN htmlIcon ELSE NoIcon, ic)
  IN [listening |-> enabled(b, pa, na),
      listening_p |-> enabled_p(b, pa, na),
      storage |-> "dark",
      initial |-> first,
      dataTheme |-> dom.dataTheme,
      iconText |-> dom.iconText]

load(b, pa, na, ic, st, htmlTheme, htmlIcon) ==
  LET first == initialTheme(st)
      dom == apply(first, htmlTheme, IF ic THEN htmlIcon ELSE NoIcon, ic)
  IN [listening |-> enabled(b, pa, na),
      listening_p |-> enabled_p(b, pa, na),
      storage |-> st,
      initial |-> first,
      dataTheme |-> dom.dataTheme,
      iconText |-> dom.iconText]

Init ==
  /\ body \in BOOLEAN
  \* without a body element there are no body attributes
  /\ prevAttr \in (IF body THEN PrevAttrs ELSE {AttrAbsent})
  /\ nextAttr \in (IF body THEN NextAttrs ELSE {AttrAbsent})
  /\ btn \in BOOLEAN /\ icon \in BOOLEAN
  /\ \E st \in SavedValues, ht \in HtmlThemes, hi \in HtmlIcons :
       LET l == load(body, prevAttr, nextAttr, icon, st, ht, hi)
       IN /\ listening = l.listening /\ listening_p = l.listening_p
          /\ storage = l.storage
          /\ initial = l.initial /\ applied = l.initial
          /\ dataTheme = l.dataTheme /\ iconText = l.iconText
          /\ preTheme = "none"
  /\ startX = Null /\ startY = Null
  /\ startX_p = Null /\ startY_p = Null
  /\ href = PageUrl
  /\ op = "load" /\ ev = NoList
  /\ pre = <<Null, Null>> /\ pre_p = <<Null, Null>>
  /\ nav = "none" /\ nav_p = "none"
  /\ threw = FALSE /\ threw_p = FALSE
  /\ lastStart = NoList /\ pairStart = NoList
  /\ appliedPrev = "none"

\* the page is loaded again (reload, or arrival after a navigation)
Reload ==
  /\ \E ht \in HtmlThemes, hi \in HtmlIcons :
       LET l == load(body, prevAttr, nextAttr, icon, storage, ht, hi)
       IN /\ listening' = l.listening /\ listening_p' = l.listening_p
          /\ storage' = l.storage
          /\ initial' = l.initial /\ applied' = l.initial
          /\ dataTheme' = l.dataTheme /\ iconText' = l.iconText
          /\ preTheme' = "none"
  /\ startX' = Null /\ startY' = Null
  /\ startX_p' = Null /\ startY_p' = Null
  /\ href' = PageUrl
  /\ op' = "load" /\ ev' = NoList
  /\ pre' = <<Null, Null>> /\ pre_p' = <<Null, Null>>
  /\ nav' = "none" /\ nav_p' = "none"
  /\ threw' = FALSE /\ threw_p' = FALSE
  /\ lastStart' = NoList /\ pairStart' = NoList
  /\ appliedPrev' = applied
  /\ UNCHANGED <<body, prevAttr, nextAttr, btn, icon>>

\* ---- events ---------------------------------------------------------------
\* a touchstart is dispatched to every registered touchstart listener
TouchStart ==
  \E e \in Events :
    LET r == onTouchStart(startX, startY, e)
        r_p == onTouchStart_p(startX_p, startY_p, e)
    IN /\ op' = "touchstart" /\ ev' = e
       /\ pre' = <<startX, startY>> /\ pre_p' = <<startX_p, startY_p>>
       /\ lastStart' = (IF HasPoint(e) THEN e ELSE lastStart) /\ pairStart' = NoList
       /\ IF listening
            THEN startX' = r.startX /\ startY' = r.startY /\ threw' = r.threw
            ELSE UNCHANGED <<startX, startY>> /\ threw' = FALSE
       /\ IF listening_p
            THEN /\ startX_p' = r_p.startX /\ startY_p' = r_p.startY
                 /\ threw_p' = r_p.threw
            ELSE UNCHANGED <<startX_p, startY_p>> /\ threw_p' = FALSE
       /\ nav' = "none" /\ nav_p' = "none"
       /\ appliedPrev' = "none" /\ preTheme' = "none"
       /\ UNCHANGED <<body, prevAttr, nextAttr, btn, icon, listening, listening_p,
                      href, storage, dataTheme, iconText, initial, applied>>

\* a touchend is dispatched to every registered touchend listener
TouchEnd ==
  \E e \in Events :
    LET r == onTouchEnd(startX, startY, e, dataset(prevAttr), dataset(nextAttr))
        r_p == onTouchEnd_p(startX_p, startY_p, e,
                            getAttribute(prevAttr), getAttribute(nextAttr))
        n == IF listening THEN r.nav ELSE "none"
        n_p == IF listening_p THEN r_p.nav ELSE "none"
    IN /\ op' = "touchend" /\ ev' = e
       /\ pre' = <<startX, startY>> /\ pre_p' = <<startX_p, startY_p>>
       /\ lastStart' = (IF HasPoint(e) THEN NoList ELSE lastStart)
       /\ pairStart' = lastStart
       /\ IF listening
            THEN startX' = r.startX /\ startY' = r.startY /\ threw' = r.threw
            ELSE UNCHANGED <<startX, startY>> /\ threw' = FALSE
       /\ IF listening_p
            THEN /\ startX_p' = r_p.startX /\ startY_p' = r_p.startY
                 /\ threw_p' = r_p.threw
            ELSE UNCHANGED <<startX_p, startY_p>> /\ threw_p' = FALSE
       /\ nav' = n /\ nav_p' = n_p
       /\ appliedPrev' = "none" /\ preTheme' = "none"
       \* the listeners run in registration order: the last assignment stands
       /\ href' = IF n_p # "none" THEN n_p ELSE IF n # "none" THEN n ELSE href
       /\ UNCHANGED <<body, prevAttr, nextAttr, btn, icon, listening, listening_p,
                      storage, dataTheme, iconText, initial, applied>>

\* the toggle button is activated (the listener exists only if the button does)
Click ==
  /\ btn
  /\ LET r == onClick(storage, dataTheme, iconText, icon)
     IN /\ storage' = r.storage
        /\ applied' = r.applied
        /\ dataTheme' = r.dataTheme
        /\ iconText' = r.iconText
  /\ preTheme' = dataTheme
  /\ op' = "click" /\ ev' = NoList
  /\ pre' = <<startX, startY>> /\ pre_p' = <<startX_p, startY_p>>
  /\ nav' = "none" /\ nav_p' = "none"
  /\ threw' = FALSE /\ threw_p' = FALSE
  /\ pairStart' = NoList /\ appliedPrev' = "none"
  /\ UNCHANGED <<body, prevAttr, nextAttr, btn, icon, listening, listening_p,
                 startX, startY, startX_p, startY_p, href, lastStart, initial>>

\* ---- apply() on its own, from any document state ---------------------------
Themes == {"light", "dark"}

InitApply ==
  /\ body = TRUE /\ prevAttr = AttrAbsent /\ nextAttr = AttrAbsent
  /\ btn \in BOOLEAN /\ icon \in BOOLEAN
  /\ storage \in SavedValues
  /\ dataTheme \in HtmlThemes
  /\ iconText \in (IF icon THEN HtmlIcons ELSE {NoIcon})
  /\ listening = FALSE /\ listening_p = FALSE
  /\ startX = Null /\ startY = Null
  /\ startX_p = Null /\ startY_p = Null
  /\ href = PageUrl
  /\ op = "markup" /\ ev = NoList
  /\ pre = <<Null, Null>> /\ pre_p = <<Null, Null>>
  /\ nav = "none" /\ nav_p = "none"
  /\ threw = FALSE /\ threw_p = FALSE
  /\ lastStart = NoList /\ pairStart = NoList
  /\ initial = "none" /\ applied = "none" /\ appliedPrev = "none"
  /\ preTheme = "none"

ApplyCall ==
  \E theme \in Themes :
    LET dom == apply(theme, dataTheme, iconText, icon)
    IN /\ dataTheme' = dom.dataTheme
       /\ iconText' = dom.iconText
       /\ applied' = theme /\ appliedPrev' = applied
       /\ preTheme' = dataTheme
       /\ op' = "apply"
       /\ UNCHANGED <<body, prevAttr, nextAttr, btn, icon, listening, startX, startY,
                      listening_p, startX_p, startY_p, href, storage, ev, pre, pre_p,
                      nav, nav_p, threw, threw_p, lastStart, pairStart, initial>>

NextApply == ApplyCall

SpecApply == InitApply /\ [][NextApply]_vars

Next == TouchStart \/ TouchEnd \/ Click \/ Reload

Spec == Init /\ [][Next]_vars

\* ---- properties ------------------------------------------------------------
BothUrls == body /\ prevAttr = PrevTarget /\ nextAttr = NextTarget

\* displacement of the touchend's first changed touch from the paired touchstart
PairDx == ev.list[1].clientX - pairStart.list[1].clientX
PairDy == ev.list[1].clientY - pairStart.list[1].clientY
IsPair == op = "touchend" /\ HasPoint(pairStart) /\ HasPoint(ev)
Qualifies == Abs(PairDx) > 60 /\ 2 * Abs(PairDx) > 3 * Abs(PairDy)

\* C1: with both URLs present, a touch pair with abs(dx) > 60 and
\* abs(dx) > 1.5 * abs(dy) navigates, to the next URL when dx < 0 and to the
\* previous URL when dx > 0 (in both swipe scripts).
C1_QualifyingSwipeNavigates ==
  (BothUrls /\ IsPair /\ Qualifies) =>
    /\ PairDx < 0 => (nav = NextTarget /\ nav_p = NextTarget /\ href = NextTarget)
    /\ PairDx > 0 => (nav = PrevTarget /\ nav_p = PrevTarget /\ href = PrevTarget)

C1_Witness ==
  /\ BothUrls /\ IsPair /\ Qualifies
  /\ PairDx = -90 /\ PairDy = 0 /\ href = NextTarget

\* C2: a touch pair failing either threshold (abs(dx) <= 60 or
\* abs(dx) <= 1.5 * abs(dy)) causes no navigation at its touchend.
C2_NonQualifyingNoNavigation ==
  (IsPair /\ ~Qualifies) => (nav = "none" /\ nav_p = "none")

C2_Witness ==
  /\ BothUrls /\ IsPair /\ ~Qualifies
  /\ PairDx = 90 /\ PairDy = 60 /\ nav = "none" /\ nav_p = "none"

\* C3: when the previous or the next URL is empty or absent, no listener is
\* registered and no sequence of touch events navigates.
C3_DisabledNeverNavigates ==
  (~body \/ prevAttr \in {AttrAbsent, ""} \/ nextAttr \in {AttrAbsent, ""}) =>
    /\ ~listening /\ ~listening_p
    /\ nav = "none" /\ nav_p = "none" /\ href = PageUrl

C3_Witness ==
  /\ body /\ prevAttr = PrevTarget /\ nextAttr = ""
  /\ IsPair /\ Qualifies /\ href = PageUrl

\* C4 as stated: after every touchend, whatever it carried, startX and
\* startY are null.
C4_AlwaysResetAfterTouchEnd ==
  op = "touchend" =>
    /\ startX = Null /\ startY = Null
    /\ startX_p = Null /\ startY_p = Null

\* C4 amended: after a touchend that carries at least one changed touch,
\* startX and startY are null (qualifying or not); a touchend with no changed
\* touch leaves the gesture state as it was.
C4_ResetAfterTouchEndWithPoint ==
  op = "touchend" =>
    /\ HasPoint(ev) => /\ startX = Null /\ startY = Null
                       /\ startX_p = Null /\ startY_p = Null
    /\ ~HasPoint(ev) => /\ <<startX, startY>> = pre
                        /\ <<startX_p, startY_p>> = pre_p

C4_Witness ==
  /\ BothUrls /\ IsPair /\ ~Qualifies
  /\ pre # <<Null, Null>> /\ pre_p # <<Null, Null>>
  /\ startX = Null /\ startX_p = Null

\* C5: no handler ever raises an exception, whatever the event carries.
C5_NoHandlerThrows == ~threw /\ ~threw_p

\* C6: a touchstart without touch points leaves startX and startY as they
\* were, whether or not a gesture was in progress.
C6_EmptyTouchStartIgnored ==
  (op = "touchstart" /\ ~HasPoint(ev)) =>
    /\ <<startX, startY>> = pre
    /\ <<startX_p, startY_p>> = pre_p

C6_Witness ==
  /\ BothUrls /\ op = "touchstart" /\ ~HasPoint(ev)
  /\ pre # <<Null, Null>> /\ <<startX, startY>> = pre
  /\ pre_p # <<Null, Null>> /\ <<startX_p, startY_p>> = pre_p

\* C7: a touchend arriving while no gesture is in progress neither navigates
\* nor changes the gesture state, and every navigation is paired with a
\* touchstart not yet consumed by an earlier touchend.
C7_TouchEndWithoutGestureInert ==
  /\ (op = "touchend" /\ pre = <<Null, Null>>) =>
        (nav = "none" /\ startX = Null /\ startY = Null)
  /\ (op = "touchend" /\ pre_p = <<Null, Null>>) =>
        (nav_p = "none" /\ startX_p = Null /\ startY_p = Null)
  /\ (op = "touchend" /\ ~HasPoint(pairStart)) => (nav = "none" /\ nav_p = "none")
  /\ (nav # "none" \/ nav_p # "none") => (op = "touchend" /\ HasPoint(pairStart))

C7_Witness ==
  /\ BothUrls /\ op = "touchend" /\ HasPoint(ev) /\ ev.list[1].clientX = 90
  /\ ~HasPoint(pairStart) /\ pre = <<Null, Null>> /\ pre_p = <<Null, Null>>
  /\ nav = "none" /\ nav_p = "none"

\* C8: at load the initial theme is the stored value when that is exactly
\* "light" or "dark" and "dark" otherwise, and it is what the document shows.
C8_InitialTheme ==
  op = "load" =>
    /\ storage \in {"light", "dark"} => initial = storage
    /\ storage \notin {"light", "dark"} => initial = "dark"
    /\ initial = "light" => (dataTheme = "light" /\ (icon => iconText = Moon))
    /\ initial = "dark" => (dataTheme = AttrAbsent /\ (icon => iconText = Sun))

C8_Witness ==
  /\ op = "load" /\ storage = "Light" /\ initial = "dark"
  /\ dataTheme = AttrAbsent /\ icon /\ iconText = Sun

\* C9: when apply("light") was the last apply before a reload, the theme
\* resolved by that reload is "light".
C9_LightSurvivesReload ==
  (op = "load" /\ appliedPrev = "light") => initial = "light"

C9_Witness ==
  op = "load" /\ appliedPrev = "light" /\ initial = "light" /\ btn

\* C10: a toggle reads the theme from the root's indicator, stores the
\* opposite theme and applies it: absent -> "light", indicator set, moon;
\* present -> "dark", indicator cleared, sun.
C10_ToggleStoresAndApplies ==
  op = "click" =>
    /\ preTheme = AttrAbsent =>
         /\ storage = "light" /\ dataTheme = "light" /\ applied = "light"
         /\ icon => iconText = Moon
    /\ preTheme # AttrAbsent =>
         /\ storage = "dark" /\ dataTheme = AttrAbsent /\ applied = "dark"
         /\ icon => iconText = Sun

C10_Witness ==
  /\ op = "click" /\ preTheme = AttrAbsent /\ icon
  /\ storage = "light" /\ dataTheme = "light" /\ iconText = Moon

\* C11: the theme survives a reload: the indicator and the icon glyph right
\* after a reload are those shown right before it.
C11_ThemePersistsAcrossReload ==
  [][op' = "load" => (dataTheme' = dataTheme /\ iconText' = iconText)]_vars

C11_Witness ==
  /\ op = "load" /\ appliedPrev = "light" /\ btn /\ icon
  /\ dataTheme = "light" /\ iconText = Moon

\* C12: only a toggle changes the theme state: a page load never writes the
\* stored value, touch handling leaves the stored value, the indicator and the
\* glyph alone, and a toggle leaves the gesture state, the navigation targets
\* and the location alone.
C12_ThemeAndSwipeIndependent ==
  [][/\ op' = "load" => storage' = storage
     /\ op' \in {"touchstart", "touchend"} =>
          (storage' = storage /\ dataTheme' = dataTheme /\ iconText' = iconText)
     /\ op' = "click" =>
          /\ <<startX', startY'>> = <<startX, startY>>
          /\ <<startX_p', startY_p'>> = <<startX_p, startY_p>>
          /\ <<prevAttr', nextAttr'>> = <<prevAttr, nextAttr>>
          /\ href' = href]_vars

C12_Witness ==
  /\ op = "click" /\ BothUrls /\ storage = "light"
  /\ startX # Null /\ startX_p # Null /\ pre = <<startX, startY>>

\* C13: apply is idempotent: a second apply(theme) with the same theme leaves
\* the indicator and the glyph as the first call left them, whatever the
\* document showed before.
C13_ApplyIdempotent ==
  [][(op = "apply" /\ op' = "apply" /\ applied' = applied) =>
       (dataTheme' = dataTheme /\ iconText' = iconText)]_vars

C13_Witness ==
  /\ op = "apply" /\ appliedPrev = "light" /\ applied = "light"
  /\ preTheme = "light" /\ dataTheme = "light" /\ icon /\ iconText = Moon

\* C14: after load and any toggles the document agrees with storage: the light
\* indicator is present iff the stored value is exactly "light", and an
\* existing icon shows the moon iff the indicator is present, else the sun.
C14_DisplayAgreesWithStorage ==
  /\ dataTheme \in {"light", AttrAbsent}
  /\ dataTheme = "light" <=> storage = "light"
  /\ icon => iconText = (IF dataTheme = "light" THEN Moon ELSE Sun)
  /\ ~icon => iconText = NoIcon

C14_Witness ==
  /\ op = "click" /\ preTheme = "light" /\ icon
  /\ storage = "dark" /\ dataTheme = AttrAbsent /\ iconText = Sun

\* C15: fed the same URLs and the same events, the two swipe scripts register
\* under the same condition, hold the same gesture state after every event and
\* take the same navigation decision; on events that carry a touch point they
\* also agree on completing without an exception.
C15_SwipeScriptsAgree ==
  /\ listening = listening_p
  /\ startX = startX_p /\ startY = startY_p
  /\ nav = nav_p
  /\ HasPoint(ev) => threw = threw_p

C15_Witness ==
  /\ BothUrls /\ IsPair /\ Qualifies /\ PairDx = 80 /\ PairDy = 0
  /\ nav = PrevTarget /\ nav_p = PrevTarget
  /\ startX = Null /\ startX_p = Null

\* C16: a touchstart with a touch point arriving while a gesture is already in
\* progress overwrites the recorded start; the next touchend classifies the
\* displacement from that most recent touchstart, and the touchend that
\* navigated leaves nothing for a directly following touchend to navigate on.
C16_LastTouchStartWins ==
  [][/\ (listening /\ listening_p /\ op = "touchstart" /\ HasPoint(ev)
           /\ pre # <<Null, Null>>) =>
          /\ <<startX, startY>> = <<Some(ev.list[1].clientX), Some(ev.list[1].clientY)>>
          /\ <<startX_p, startY_p>> = <<startX, startY>>
          /\ (op' = "touchend" /\ HasPoint(ev')) =>
               LET dx == ev'.list[1].clientX - ev.list[1].clientX
                   dy == ev'.list[1].clientY - ev.list[1].clientY
                   target == IF Abs(dx) > 60 /\ 2 * Abs(dx) > 3 * Abs(dy)
                               THEN (IF dx < 0 THEN NextTarget ELSE PrevTarget)
                               ELSE "none"
               IN nav' = target /\ nav_p' = target /\ startX' = Null /\ startX_p' = Null
     /\ (op = "touchend" /\ (nav # "none" \/ nav_p # "none") /\ op' = "touchend") =>
          (nav' = "none" /\ nav_p' = "none")]_vars

C16_Witness ==
  /\ BothUrls /\ op = "touchstart" /\ HasPoint(ev)
  /\ pre # <<Null, Null>> /\ pre # <<startX, startY>>
  /\ pre[1] = Some(90) /\ startX = Some(0) /\ startX_p = Some(0)

====
